---- MODULE Spec2Model ----
(***************************************************************************)
(* Model of the terraclimate pipeline (src/recipe/pipeline.py).            *)
(*                                                                         *)
(*  Spec      the task graph built by TerraclimatePipeline.flow: one       *)
(*            download task and one nc2zarr task per source, one           *)
(*            combine_and_write task, run under the scheduler's task       *)
(*            state machine (retries, triggers).                           *)
(*  DownloadSpec                                                           *)
(*            invocations of the download function, step by step, by       *)
(*            worker processes that share one cache location.              *)
(*  ConvertSpec                                                            *)
(*            the dataset transformation of nc2zarr, preproc followed by   *)
(*            postproc, on raw datasets drawn from a bounded set.          *)
(*  MaskSpec  apply_mask on one data array under every key of interest.    *)
(*  SourcesSpec                                                            *)
(*            the loops of TerraclimatePipeline.sources over a variable    *)
(*            list and a year list, and the mapping of the flow over the   *)
(*            list they return.                                            *)
(*  CombineSpec                                                            *)
(*            the merge of combine_and_write on a list of converted        *)
(*            datasets and on a permutation of that list.                  *)
(***************************************************************************)
EXTENDS Integers, Sequences, FiniteSets, TLC

(* ------------------------------ bounds -------------------------------- *)

\* number of entries of TerraclimatePipeline.sources the flow maps over
NumSources == 2

Sources == 1..NumSources

\* number of invocations of download in a behaviour of DownloadSpec
NumCalls == 2

Calls == 1..NumCalls

\* number of bytes of a remote source file
ContentLen == 2

\* longest data array of a raw dataset of ConvertSpec
MaxLen == 2

\* longest variable list and longest year range of a pipeline in SourcesSpec
MaxVariables == 3
MaxYears == 2

\* longest list of converted datasets handed to the merge in CombineSpec
MaxInputs == 3

\* source URLs handed to download
Urls == {"TerraClimate_tmax_1958.nc", "TerraClimate_tmax_1959.nc"}

\* the worker processes that run download; each interpreter start draws its
\* own string-hash seed
Processes == {"worker-a", "worker-b"}

\* cache locations handed to download, as <<protocol, path>>: the one the
\* module configures, and one on a local file system
configured_cache_location == <<"gs", "//pangeo-forge-scratch/terraclimate-cache-2/">>
CacheLocations ==
    {configured_cache_location, <<"file", "///scratch/terraclimate-cache-2/">>}

(* ------------------------- retry configuration ------------------------ *)

download_max_retries_2 == 1 + 1
\* @task(max_retries=1, retry_delay=timedelta(seconds=1)) on download
download_max_retries == 1

nc2zarr_max_retries_0 == 1 - 1
\* @task(max_retries=1, retry_delay=timedelta(seconds=10)) on nc2zarr
nc2zarr_max_retries == 1

combine_max_retries_1 == 0 + 1
\* @task on combine_and_write: no max_retries argument, the default is 0
combine_max_retries == 0

VARIABLES
    \* ---- the flow run (Spec) ----
    dlState,      \* state of the download task of each source
    dlRuns,       \* run count of the download task of each source
    cvState,      \* state of the nc2zarr task of each source
    cvRuns,       \* run count of the nc2zarr task of each source
    cvErr,        \* kind of the last exception an nc2zarr attempt raised
    readable,     \* whether the object at the returned cache URL opens as a dataset
    cbState,      \* state of the combine_and_write task
    cbPc,         \* position inside a running combine_and_write
    cbRuns,       \* run count of combine_and_write
    cbErr,        \* where the exception combine_and_write raised came from
    targetWrites, \* number of to_zarr writes started on the target location
    target,       \* content of the target store
    flowState,    \* state of the flow run
    \* ---- invocations of download (DownloadSpec) ----
    cache_location, \* the cache_location argument of every invocation
    cache,        \* the cache location: target_url -> bytes, or NoObject
    callPc,       \* position of each invocation inside download
    callUrl,      \* its source_url argument
    callProc,     \* the process it runs in
    callRet,      \* the value it returned
    callPrior,    \* what an earlier invocation of the same process for the
                  \* same source_url had returned when this one began
    callReads,    \* remote reads it has made (source.read())
    callWrites,   \* writes it has made to the cache (open for writing, write)
    returned,     \* per process and source_url: the value download returned
    \* ---- the dataset inside nc2zarr (ConvertSpec) ----
    raw,          \* the dataset xr.open_dataset returned
    ds,           \* the dataset as the pipe has it now
    stage,        \* "opened", "preprocessed", "postprocessed"; in MaskSpec
                  \* "unmasked", "masked"
    \* ---- the merge inside combine_and_write (CombineSpec) ----
    ds_list,      \* the opened inputs, in the order of the sources argument
    ds_permuted,  \* the same inputs in another order
    merged,       \* combine_by_coords of ds_list
    merged_permuted, \* combine_by_coords of ds_permuted
    \* ---- TerraclimatePipeline.sources and the mapping (SourcesSpec) ----
    self_variables, \* self.variables
    self_years,     \* self.years
    sources_pc,     \* "loop", "returned", "mapped"
    var_i,          \* position of the outer loop in self.variables
    year_j,         \* position of the inner loop in self.years
    source_urls,    \* the list under construction
    nc_sources,     \* download.map: the source_url of every mapped child
    cached_sources  \* nc2zarr.map: the download child every mapped child reads

flowVars == <<dlState, dlRuns, cvState, cvRuns, cvErr, readable,
              cbState, cbPc, cbRuns, cbErr, targetWrites, target, flowState>>

callVars == <<cache_location, cache, callPc, callUrl, callProc, callRet, callPrior,
              callReads, callWrites, returned>>

convertVars == <<raw, ds, stage>>

mergeVars == <<ds_list, ds_permuted, merged, merged_permuted>>

sourcesVars == <<self_variables, self_years, sources_pc, var_i, year_j,
                 source_urls, nc_sources, cached_sources>>

\* what the actions of the flow leave alone
offFlow == <<callVars, convertVars, mergeVars, sourcesVars>>

\* what the steps of download leave alone
offCalls == <<flowVars, convertVars, mergeVars, sourcesVars>>

\* what the steps of the conversion leave alone
offConvert == <<flowVars, callVars, mergeVars, sourcesVars>>

\* what the merge leaves alone
offMerge == <<flowVars, callVars, convertVars, sourcesVars>>

\* what the enumeration of the sources leaves alone
offSources == <<flowVars, callVars, convertVars, mergeVars>>

vars == <<flowVars, callVars, convertVars, mergeVars, sourcesVars>>

(* ------------------------ scheduler state machine --------------------- *)

Finished_without_trigger_failed == {"Success", "Failed"}
Finished == {"Success", "Failed", "TriggerFailed"}

\* The state a task run takes when its function raised on run number `runs`:
\* a retry while the run count does not exceed max_retries, Failed afterwards.
AfterException(runs, max_retries) ==
    IF runs <= max_retries THEN "Retrying" ELSE "Failed"

nc2zarr_trigger_any(s) == dlState[s] \in Finished
\* nc2zarr.map(nc_sources, ...): child s runs on the result of download child s
\* (default trigger: the upstream child was successful)
nc2zarr_trigger(s) == dlState[s] = "Success"

combine_trigger_all_finished == \A s \in Sources : cvState[s] \in Finished
\* combine_and_write(cached_sources, target): the reduce over every nc2zarr
\* child (default trigger: every upstream child was successful)
combine_trigger == \A s \in Sources : cvState[s] = "Success"

(* ------------------------------ download ------------------------------ *)

DownloadStart(s) ==
    /\ dlState[s] \in {"Pending", "Retrying"}
    /\ dlState' = [dlState EXCEPT ![s] = "Running"]
    /\ dlRuns' = [dlRuns EXCEPT ![s] = @ + 1]
    /\ UNCHANGED <<cvState, cvRuns, cvErr, readable, cbState, cbPc, cbRuns,
                   targetWrites, target, flowState, cbErr, offFlow>>

\* download returned target_url. Whether the object there parses as a dataset
\* is decided by the remote file and by what the cache held.
DownloadReturns(s) ==
    /\ dlState[s] = "Running"
    /\ dlState' = [dlState EXCEPT ![s] = "Success"]
    /\ \E r \in BOOLEAN : readable' = [readable EXCEPT ![s] = r]
    /\ UNCHANGED <<dlRuns, cvState, cvRuns, cvErr, cbState, cbPc, cbRuns,
                   targetWrites, target, flowState, cbErr, offFlow>>

DownloadRaises(s) ==
    /\ dlState[s] = "Running"
    /\ dlState' = [dlState EXCEPT
                     ![s] = AfterException(dlRuns[s], download_max_retries)]
    /\ UNCHANGED <<dlRuns, cvState, cvRuns, cvErr, readable, cbState, cbPc,
                   cbRuns, targetWrites, target, flowState, cbErr, offFlow>>

(* ------------------------------ nc2zarr ------------------------------- *)

Nc2zarrStart(s) ==
    /\ \/ cvState[s] = "Pending" /\ dlState[s] \in Finished /\ nc2zarr_trigger(s)
       \/ cvState[s] = "Retrying"
    /\ cvState' = [cvState EXCEPT ![s] = "Running"]
    /\ cvRuns' = [cvRuns EXCEPT ![s] = @ + 1]
    /\ UNCHANGED <<dlState, dlRuns, cvErr, readable, cbState, cbPc, cbRuns,
                   targetWrites, target, flowState, cbErr, offFlow>>

Nc2zarrTriggerFailed(s) ==
    /\ cvState[s] = "Pending"
    /\ dlState[s] \in Finished
    /\ ~nc2zarr_trigger(s)
    /\ cvState' = [cvState EXCEPT ![s] = "TriggerFailed"]
    /\ UNCHANGED <<dlState, dlRuns, cvRuns, cvErr, readable, cbState, cbPc,
                   cbRuns, targetWrites, target, flowState, cbErr, offFlow>>

\* xr.open_dataset(...).pipe(preproc).pipe(postproc).load().chunk(chunks) and
\* ds.to_zarr(mapper, mode='w') all went through
Nc2zarrReturns(s) ==
    /\ cvState[s] = "Running"
    /\ readable[s]
    /\ cvState' = [cvState EXCEPT ![s] = "Success"]
    /\ UNCHANGED <<dlState, dlRuns, cvRuns, cvErr, readable, cbState, cbPc,
                   cbRuns, targetWrites, target, flowState, cbErr, offFlow>>

\* An exception of either kind leaves the function the same way: the task
\* decorator states one retry policy and no exception filter.
Nc2zarrRaises(s) ==
    /\ cvState[s] = "Running"
    /\ cvErr' = [cvErr EXCEPT
                   ![s] = IF readable[s] THEN "transient" ELSE "malformed"]
    /\ cvState' = [cvState EXCEPT
                     ![s] = AfterException(cvRuns[s], nc2zarr_max_retries)]
    /\ UNCHANGED <<dlState, dlRuns, cvRuns, readable, cbState, cbPc, cbRuns,
                   targetWrites, target, flowState, cbErr, offFlow>>

(* -------------------------- combine_and_write ------------------------- *)

CombineStart ==
    /\ \/ /\ cbState = "Pending"
          /\ \A s \in Sources : cvState[s] \in Finished
          /\ combine_trigger
       \/ cbState = "Retrying"
    /\ cbState' = "Running"
    /\ cbPc' = "open"
    /\ cbRuns' = cbRuns + 1
    /\ UNCHANGED <<dlState, dlRuns, cvState, cvRuns, cvErr, readable,
                   targetWrites, target, flowState, cbErr, offFlow>>

CombineTriggerFailed ==
    /\ cbState = "Pending"
    /\ \A s \in Sources : cvState[s] \in Finished
    /\ ~combine_trigger
    /\ cbState' = "TriggerFailed"
    /\ UNCHANGED <<dlState, dlRuns, cvState, cvRuns, cvErr, readable, cbPc,
                   cbRuns, targetWrites, target, flowState, cbErr, offFlow>>

writes_target_while_opening(pc) == pc \in {"open", "write"}
\* whether the code at position pc of combine_and_write writes to the target:
\* the inputs are opened and merged in memory, only ds.to_zarr touches it
writes_target(pc) == pc = "write"

\* the target store and the count of writes once the code at pc has begun
TargetAfter(pc) == IF writes_target(pc) THEN "partial" ELSE target
WritesAfter(pc) == IF writes_target(pc) THEN targetWrites + 1 ELSE targetWrites

\* ds_list = [xr.open_zarr(mapper) for mapper in mappers] opened every input
CombineOpens ==
    /\ cbState = "Running" /\ cbPc = "open"
    /\ cbPc' = "merge"
    /\ target' = TargetAfter("open")
    /\ targetWrites' = WritesAfter("open")
    /\ UNCHANGED <<dlState, dlRuns, cvState, cvRuns, cvErr, readable, cbState,
                   cbRuns, cbErr, flowState, offFlow>>

\* xr.open_zarr raised on an input that cannot be opened
CombineOpenRaises ==
    /\ cbState = "Running" /\ cbPc = "open"
    /\ cbState' = AfterException(cbRuns, combine_max_retries)
    /\ cbPc' = "done"
    /\ cbErr' = "open"
    /\ target' = TargetAfter("open")
    /\ targetWrites' = WritesAfter("open")
    /\ UNCHANGED <<dlState, dlRuns, cvState, cvRuns, cvErr, readable, cbRuns,
                   flowState, offFlow>>

\* xr.combine_by_coords raised on inputs that cannot be merged
CombineMergeRaises ==
    /\ cbState = "Running" /\ cbPc = "merge"
    /\ cbState' = AfterException(cbRuns, combine_max_retries)
    /\ cbPc' = "done"
    /\ cbErr' = "merge"
    /\ target' = TargetAfter("merge")
    /\ targetWrites' = WritesAfter("merge")
    /\ UNCHANGED <<dlState, dlRuns, cvState, cvRuns, cvErr, readable, cbRuns,
                   flowState, offFlow>>

\* ds.to_zarr(mapper, mode="w", consolidated=True) starts: the store is
\* cleared and the groups and chunks are being written
CombineWriteBegins ==
    /\ cbState = "Running" /\ cbPc = "merge"
    /\ cbPc' = "write"
    /\ target' = TargetAfter("write")
    /\ targetWrites' = WritesAfter("write")
    /\ UNCHANGED <<dlState, dlRuns, cvState, cvRuns, cvErr, readable, cbState,
                   cbRuns, cbErr, flowState, offFlow>>

CombineReturns ==
    /\ cbState = "Running" /\ cbPc = "write"
    /\ cbState' = "Success"
    /\ cbPc' = "done"
    /\ target' = "complete"
    /\ UNCHANGED <<dlState, dlRuns, cvState, cvRuns, cvErr, readable, cbRuns,
                   cbErr, targetWrites, flowState, offFlow>>

CombineWriteRaises ==
    /\ cbState = "Running" /\ cbPc = "write"
    /\ cbState' = AfterException(cbRuns, combine_max_retries)
    /\ cbPc' = "done"
    /\ cbErr' = "write"
    /\ UNCHANGED <<dlState, dlRuns, cvState, cvRuns, cvErr, readable, cbRuns,
                   targetWrites, target, flowState, offFlow>>

\* the flow run ends in the state of its terminal task, combine_and_write
FlowFinishes ==
    /\ flowState = "Running"
    /\ cbState \in Finished
    /\ flowState' = IF cbState = "Success" THEN "Success" ELSE "Failed"
    /\ UNCHANGED <<dlState, dlRuns, cvState, cvRuns, cvErr, readable, cbState,
                   cbPc, cbRuns, cbErr, targetWrites, target, offFlow>>

(* ----------------------- the download function ----------------------- *)

\* no object at a URL of the cache (what makes fs.open raise FileNotFoundError)
NoObject == <<<<"NoObject", 0>>>>
None == "None"
\* no value returned
NoUrl == <<"None">>

\* cache_location.split(':')[0], which selects the file system class: "file"
\* creates the file when it is opened for writing, "gs" makes the object
\* appear when the writer is closed
protocol == cache_location[1]

\* the bytes the remote archive serves for source_url
SourceContent(u) == [i \in 1..ContentLen |-> <<u, i>>]

Prefix(seq, n) == SubSeq(seq, 1, n)

\* hash(source_url): the built-in string hash, keyed by the seed of the
\* interpreter that evaluates it
hash(proc, source_url) == <<"hash", proc, source_url>>

\* target_url = os.path.join(cache_location, str(hash(source_url)))
target_url(proc, source_url, location) == <<location, hash(proc, source_url)>>

TargetUrls(location) == {target_url(p, u, location) : p \in Processes, u \in Urls}

exists_never(url) == FALSE
\* fs.open(target_url) does not raise FileNotFoundError
exists(url) == cache[url] /= NoObject

MyTarget(c) == target_url(callProc[c], callUrl[c], cache_location)

\* an invocation begins: download(source_url, cache_location) in process p
Invoke(c, u, p) ==
    /\ callPc[c] = "idle"
    /\ \A d \in Calls : d < c => callPc[d] /= "idle"
    /\ callPc' = [callPc EXCEPT ![c] = "check"]
    /\ callUrl' = [callUrl EXCEPT ![c] = u]
    /\ callProc' = [callProc EXCEPT ![c] = p]
    /\ callPrior' = [callPrior EXCEPT ![c] = returned[<<p, u>>]]
    /\ UNCHANGED <<cache_location, cache, callRet, callReads, callWrites, returned,
                   offCalls>>

\* try: fs.open(target_url); return target_url
CheckHit(c) ==
    /\ callPc[c] = "check"
    /\ exists(MyTarget(c))
    /\ callPc' = [callPc EXCEPT ![c] = "returned"]
    /\ callRet' = [callRet EXCEPT ![c] = MyTarget(c)]
    /\ returned' = [returned EXCEPT ![<<callProc[c], callUrl[c]>>] = MyTarget(c)]
    /\ UNCHANGED <<cache_location, cache, callUrl, callProc, callPrior, callReads,
                   callWrites, offCalls>>

\* except FileNotFoundError: pass
CheckMiss(c) ==
    /\ callPc[c] = "check"
    /\ ~exists(MyTarget(c))
    /\ callPc' = [callPc EXCEPT ![c] = "open_source"]
    /\ UNCHANGED <<cache_location, cache, callUrl, callProc, callRet, callPrior,
                   callReads, callWrites, returned, offCalls>>

\* fs.open(target_url) raised something else than FileNotFoundError
CheckRaises(c) ==
    /\ callPc[c] = "check"
    /\ callPc' = [callPc EXCEPT ![c] = "raised"]
    /\ UNCHANGED <<cache_location, cache, callUrl, callProc, callRet, callPrior,
                   callReads, callWrites, returned, offCalls>>

\* with fsspec.open(source_url, mode="rb") as source
OpenSource(c) ==
    /\ callPc[c] = "open_source"
    /\ callPc' = [callPc EXCEPT ![c] = "open_target"]
    /\ UNCHANGED <<cache_location, cache, callUrl, callProc, callRet, callPrior,
                   callReads, callWrites, returned, offCalls>>

OpenSourceRaises(c) ==
    /\ callPc[c] = "open_source"
    /\ callPc' = [callPc EXCEPT ![c] = "raised"]
    /\ UNCHANGED <<cache_location, cache, callUrl, callProc, callRet, callPrior,
                   callReads, callWrites, returned, offCalls>>

\* with fs.open(target_url, mode="wb") as target: a local file is created
\* (or truncated) here, an object of a blob store is not touched yet
OpenTarget(c) ==
    /\ callPc[c] = "open_target"
    /\ callPc' = [callPc EXCEPT ![c] = "read"]
    /\ callWrites' = [callWrites EXCEPT ![c] = @ + 1]
    /\ cache' = IF protocol = "file"
                THEN [cache EXCEPT ![MyTarget(c)] = <<>>]
                ELSE cache
    /\ UNCHANGED <<cache_location, callUrl, callProc, callRet, callPrior, callReads,
                   returned, offCalls>>

\* fs.open(target_url, mode="wb") raises (the cache directory is missing, the
\* open is refused): the source is closed and the exception leaves download,
\* with nothing created and nothing written
OpenTargetRaises(c) ==
    /\ callPc[c] = "open_target"
    /\ callPc' = [callPc EXCEPT ![c] = "raised"]
    /\ UNCHANGED <<cache_location, cache, callUrl, callProc, callRet, callPrior,
                   callReads, callWrites, returned, offCalls>>

\* source.read() returned the whole remote file
ReadSource(c) ==
    /\ callPc[c] = "read"
    /\ callPc' = [callPc EXCEPT ![c] = "write"]
    /\ callReads' = [callReads EXCEPT ![c] = @ + 1]
    /\ UNCHANGED <<cache_location, cache, callUrl, callProc, callRet, callPrior,
                   callWrites, returned, offCalls>>

\* source.read() raised: the with block closes target, which has no byte yet.
\* The local file stays as it is; closing a blob writer uploads its (empty)
\* buffer, unless that upload fails too.
ReadRaises(c) ==
    /\ callPc[c] = "read"
    /\ callPc' = [callPc EXCEPT ![c] = "raised"]
    /\ callReads' = [callReads EXCEPT ![c] = @ + 1]
    /\ \/ cache' = cache
       \/ /\ protocol = "gs"
          /\ cache' = [cache EXCEPT ![MyTarget(c)] = <<>>]
    /\ UNCHANGED <<cache_location, callUrl, callProc, callRet, callPrior, callWrites,
                   returned, offCalls>>

\* target.write(...) wrote every byte, both files were closed: return target_url
WriteTarget(c) ==
    /\ callPc[c] = "write"
    /\ callPc' = [callPc EXCEPT ![c] = "returned"]
    /\ callWrites' = [callWrites EXCEPT ![c] = @ + 1]
    /\ cache' = [cache EXCEPT ![MyTarget(c)] = SourceContent(callUrl[c])]
    /\ callRet' = [callRet EXCEPT ![c] = MyTarget(c)]
    /\ returned' = [returned EXCEPT ![<<callProc[c], callUrl[c]>>] = MyTarget(c)]
    /\ UNCHANGED <<cache_location, callUrl, callProc, callPrior, callReads, offCalls>>

\* target.write(...) or the close raised after n bytes went out. A local file
\* keeps them (over whatever longer copy another writer left there); closing
\* the blob writer uploads the n bytes as the object, unless that fails too.
WriteRaises(c, n) ==
    /\ callPc[c] = "write"
    /\ callPc' = [callPc EXCEPT ![c] = "raised"]
    /\ callWrites' = [callWrites EXCEPT ![c] = @ + 1]
    /\ LET cur == cache[MyTarget(c)]
           part == Prefix(SourceContent(callUrl[c]), n)
       IN IF protocol = "file"
          THEN cache' = [cache EXCEPT
                           ![MyTarget(c)] = IF cur /= NoObject /\ Len(cur) > n
                                            THEN cur ELSE part]
          ELSE \/ cache' = cache
               \/ cache' = [cache EXCEPT ![MyTarget(c)] = part]
    /\ UNCHANGED <<cache_location, callUrl, callProc, callRet, callPrior, callReads,
                   returned, offCalls>>

(* ------------------------ datasets and masking ------------------------ *)

\* array elements: a number, or the missing marker
Num(x) == <<"num", x>>
NaN == <<"nan", 0>>

variables ==
    <<"aet", "def", "pet", "ppt", "q", "soil", "srad", "swe", "tmax", "tmin",
      "vap", "ws", "vpd", "PDSI">>

rename_vars == [k \in {"PDSI"} |-> "pdsi"]

\* the None of the mask_opts table
NoRule == <<>>

mask_opts ==
    [k \in {"PDSI", "aet", "def", "pet", "ppt", "ppt_station_influence", "q",
            "soil", "srad", "swe", "tmax", "tmax_station_influence", "tmin",
            "tmin_station_influence", "vap", "vap_station_influence", "vpd",
            "ws"} |->
        CASE k = "PDSI" -> <<"lt", 10>>
          [] k \in {"aet", "def", "pet", "ppt", "soil", "srad"} -> <<"lt", 32767>>
          [] k = "q" -> <<"lt", 2147483647>>
          [] k = "swe" -> <<"lt", 10000>>
          [] k \in {"tmax", "tmin", "ws"} -> <<"lt", 200>>
          [] k \in {"vap", "vpd"} -> <<"lt", 300>>
          [] OTHER -> NoRule]

\* mask_opts.get(key, None)
mask_opts_get_default(key) ==
    IF key \in DOMAIN mask_opts THEN mask_opts[key] ELSE <<"lt", 200>>
mask_opts_get(key) == IF key \in DOMAIN mask_opts THEN mask_opts[key] ELSE NoRule

\* da < val and da != val: boolean arrays (a comparison with the missing
\* marker is False for <, True for !=)
lt_or_equal(da, val) ==
    [i \in DOMAIN da.values |-> da.values[i][1] = "num" /\ da.values[i][2] <= val]
lt(da, val) ==
    [i \in DOMAIN da.values |-> da.values[i][1] = "num" /\ da.values[i][2] < val]
neq(da, val) ==
    [i \in DOMAIN da.values |-> da.values[i][1] = "nan" \/ da.values[i][2] /= val]

\* da.where(cond): the elements where cond is False become the missing
\* marker; the result is a new array, which carries no encoding
where(da, cond) ==
    [da EXCEPT !.values = [i \in DOMAIN da.values |->
                              IF cond[i] THEN da.values[i] ELSE NaN],
               !.encoding = {}]

apply_mask(key, da) ==
    LET rule == mask_opts_get(key) IN
    IF rule /= NoRule
    THEN IF rule[1] = "lt" THEN where(da, lt(da, rule[2]))
         ELSE IF rule[1] = "neq" THEN where(da, neq(da, rule[2]))
         ELSE da
    ELSE da

Names(dataset) == {dataset.data_vars[i].name : i \in DOMAIN dataset.data_vars}

Var(dataset, name) ==
    dataset.data_vars[CHOOSE i \in DOMAIN dataset.data_vars :
                          dataset.data_vars[i].name = name]

\* the new name of n under the dict `rename` (a set of <<old, new>> pairs)
Renamed(rename, n) ==
    IF \E r \in rename : r[1] = n
    THEN (CHOOSE r \in rename : r[1] = n)[2]
    ELSE n

\* ds.rename(rename): variables, dimensions and coordinates alike
ds_rename_names_only(dataset, rename) ==
    [data_vars |-> [i \in DOMAIN dataset.data_vars |->
                      [dataset.data_vars[i] EXCEPT !.name = Renamed(rename, @)]],
     coords |-> {Renamed(rename, c) : c \in dataset.coords}]
ds_rename(dataset, rename) ==
    [data_vars |-> [i \in DOMAIN dataset.data_vars |->
                      [dataset.data_vars[i] EXCEPT
                          !.name = Renamed(rename, @),
                          !.dim = Renamed(rename, @)]],
     coords |-> {Renamed(rename, c) : c \in dataset.coords}]

preproc(dataset) ==
    LET has == "station_influence" \in Names(dataset)
        station_influence == Var(dataset, "station_influence")
        ds1 == IF has
               THEN [dataset EXCEPT
                       !.data_vars = SelectSeq(@, LAMBDA v : v.name /= "station_influence")]
               ELSE dataset
        var == ds1.data_vars[1].name
        rename == (IF var \in DOMAIN rename_vars
                   THEN {<<var, rename_vars[var]>>} ELSE {})
                  \cup (IF "day" \in ds1.coords THEN {<<"day", "time">>} ELSE {})
        ds2 == IF has
               THEN [ds1 EXCEPT
                       !.data_vars = Append(@, [station_influence EXCEPT
                                                  !.name = var \o "_station_influence"])]
               ELSE ds1
    IN IF rename /= {} THEN ds_rename(ds2, rename) ELSE ds2

drop_encoding ==
    {"chunksizes", "fletcher32", "shuffle", "zlib", "complevel", "dtype",
     "_Unsigned", "missing_value", "_FillValue", "scale_factor", "add_offset"}

postproc(dataset) ==
    [dataset EXCEPT
       !.data_vars = [i \in DOMAIN dataset.data_vars |->
                        LET v == dataset.data_vars[i].name
                            da == apply_mask(v, dataset.data_vars[i])
                        IN [da EXCEPT !.encoding = @ \ drop_encoding]]]

(* ------------------------- the raw datasets --------------------------- *)

\* values of the primary variable: below every threshold of mask_opts, at
\* the thresholds 200, 32767 and 2147483647 (so above 10, 300 and 10000), and
\* missing
ValueSet == {Num(-5), Num(200), Num(32767), Num(2147483647), NaN}

StationValues == {Num(0), Num(250)}

\* the encoding xr.open_dataset leaves on a variable of a netCDF file
RawEncoding == {"zlib", "shuffle", "complevel", "chunksizes", "dtype",
                "_FillValue", "scale_factor", "add_offset", "source",
                "original_shape"}

EmptyDataset == [data_vars |-> <<>>, coords |-> {}]

RawDataset(v, vals, si, day, siFirst) ==
    LET dim == IF day THEN "day" ELSE "time"
        primary == [name |-> v, values |-> vals, dim |-> dim,
                    encoding |-> RawEncoding]
        influence == [name |-> "station_influence", values |-> si, dim |-> dim,
                      encoding |-> RawEncoding]
    IN [data_vars |-> IF si = <<>> THEN <<primary>>
                      ELSE IF siFirst THEN <<influence, primary>>
                      ELSE <<primary, influence>>,
        coords |-> {"lat", "lon", dim}]

RawDatasets ==
    {RawDataset(variables[k], vals, si, day, siFirst) :
        k \in DOMAIN variables,
        vals \in UNION {[1..n -> ValueSet] : n \in 1..MaxLen},
        si \in {<<>>} \cup UNION {[1..n -> StationValues] : n \in 1..MaxLen},
        day \in BOOLEAN,
        siFirst \in BOOLEAN}

\* .pipe(preproc)
Preproc ==
    /\ stage = "opened"
    /\ ds' = preproc(ds)
    /\ stage' = "preprocessed"
    /\ UNCHANGED <<raw, offConvert>>

\* .pipe(postproc)
Postproc ==
    /\ stage = "preprocessed"
    /\ ds' = postproc(ds)
    /\ stage' = "postprocessed"
    /\ UNCHANGED <<raw, offConvert>>

\* the keys apply_mask is called with: the keys of mask_opts, and names that
\* have no entry
MaskKeys == DOMAIN mask_opts \cup {"pdsi", "aet_station_influence"}

\* ds[v] = apply_mask(v, ds[v]) on a dataset of the one variable v
ApplyMask ==
    /\ stage = "unmasked"
    /\ ds' = [ds EXCEPT !.data_vars =
                 <<apply_mask(ds.data_vars[1].name, ds.data_vars[1])>>]
    /\ stage' = "masked"
    /\ UNCHANGED <<raw, offConvert>>

(* ----------------------------- sources -------------------------------- *)

\* source_url_pattern.format(var=var, year=year)
format_without_year(var, year) ==
    "https://climate.northwestknowledge.net/TERRACLIMATE-DATA/TerraClimate_"
        \o var \o ".nc"
format(var, year) ==
    "https://climate.northwestknowledge.net/TERRACLIMATE-DATA/TerraClimate_"
        \o var \o "_" \o ToString(year) \o ".nc"

\* range(start, stop)
range(start, stop) == [k \in 1..(stop - start) |-> start + k - 1]

\* one pass of the inner loop body: append the URL of (var, year) and move on
\* to the next year, or to the next variable after the last year
SourcesAppend ==
    /\ sources_pc = "loop"
    /\ var_i <= Len(self_variables)
    /\ year_j <= Len(self_years)
    /\ source_urls' = Append(source_urls,
                             format(self_variables[var_i], self_years[year_j]))
    /\ IF year_j < Len(self_years)
       THEN year_j' = year_j + 1 /\ var_i' = var_i
       ELSE year_j' = 1 /\ var_i' = var_i + 1
    /\ UNCHANGED <<self_variables, self_years, sources_pc, nc_sources,
                   cached_sources, offSources>>

\* return source_urls: the outer loop is exhausted, or there is no year
SourcesReturn ==
    /\ sources_pc = "loop"
    /\ var_i > Len(self_variables) \/ Len(self_years) = 0
    /\ sources_pc' = "returned"
    /\ UNCHANGED <<self_variables, self_years, var_i, year_j, source_urls,
                   nc_sources, cached_sources, offSources>>

\* download.map(self.sources, ...) and nc2zarr.map(nc_sources, ...): one
\* child per element of the mapped argument
FlowMaps ==
    /\ sources_pc = "returned"
    /\ nc_sources' = source_urls
    /\ cached_sources' = [k \in DOMAIN source_urls |-> k]
    /\ sources_pc' = "mapped"
    /\ UNCHANGED <<self_variables, self_years, var_i, year_j, source_urls,
                   offSources>>

(* ------------------------- combine_by_coords -------------------------- *)

\* A converted dataset, as the merge sees it: its data variable, the year its
\* time coordinate covers, its attributes. Its values are those of the
\* source file of (var, year), so two datasets never disagree on a value.
MergedSources == {"tmax", "tmin"} \X {1958, 1959}

AttrValues == {"attrs-1", "attrs-2"}

Converted(source, attrs) == [var |-> source[1], year |-> source[2], attrs |-> attrs]

\* the data variable names in string order
NameOrder ==
    <<"aet", "def", "pdsi", "pet", "ppt", "q", "soil", "srad", "swe", "tmax",
      "tmin", "vap", "vpd", "ws">>

\* the key combine_by_coords sorts and groups the datasets by: their data
\* variable names (here as the rank of the name in string order)
vars_as_keys(d) == CHOOSE k \in DOMAIN NameOrder : NameOrder[k] = d.var

RECURSIVE SortedFrom(_, _)
SortedFrom(datasets, k) ==
    IF k > Len(NameOrder) THEN <<>>
    ELSE SelectSeq(datasets, LAMBDA d : vars_as_keys(d) = k)
             \o SortedFrom(datasets, k + 1)

unsorted(datasets) == datasets
\* sorted(datasets, key=vars_as_keys): a stable sort
sorted(datasets) == SortedFrom(datasets, 1)

\* itertools.groupby: the runs of consecutive datasets with equal keys
RECURSIVE groupby(_)
groupby(datasets) ==
    IF datasets = <<>> THEN <<>>
    ELSE LET k == vars_as_keys(Head(datasets))
             n == CHOOSE m \in 1..Len(datasets) :
                      /\ \A i \in 1..m : vars_as_keys(datasets[i]) = k
                      /\ m < Len(datasets) => vars_as_keys(datasets[m + 1]) /= k
         IN <<SubSeq(datasets, 1, n)>>
                \o groupby(SubSeq(datasets, n + 1, Len(datasets)))

ValueError == [error |-> "ValueError"]

\* One group, concatenated along time. The datasets are placed by the rank
\* of their first time coordinate and kept in a dict under that rank, so of
\* several datasets of one year the last stays; identical time coordinates
\* throughout give no dimension to order more than one dataset by. The
\* attributes are those of the dataset placed first.
concat_group(group) ==
    IF Len(group) > 1 /\ \A i \in DOMAIN group : group[i].year = group[1].year
    THEN ValueError
    ELSE LET tiles == {i \in DOMAIN group :
                          \A j \in DOMAIN group :
                              group[j].year = group[i].year => j <= i}
             first == CHOOSE i \in tiles :
                          \A j \in tiles : group[i].year <= group[j].year
         IN [attrs |-> group[first].attrs,
             var_attrs |-> {<<group[first].var, group[first].attrs>>},
             data |-> {<<group[i].var, group[i].year>> : i \in tiles}]

\* merge(..., combine_attrs="override"): the union of the variables, with the
\* attributes of the first object; a variable that two objects hold keeps the
\* attributes of the first that holds it
RECURSIVE merge(_)
merge(objects) ==
    IF \E i \in DOMAIN objects : objects[i] = ValueError THEN ValueError
    ELSE IF Len(objects) = 1 THEN objects[1]
    ELSE LET rest == merge(Tail(objects))
             first == Head(objects)
         IN [attrs |-> first.attrs,
             var_attrs |-> first.var_attrs \cup
                 {a \in rest.var_attrs :
                      \A b \in first.var_attrs : b[1] /= a[1]},
             data |-> first.data \cup rest.data]

\* xr.combine_by_coords(ds_list, combine_attrs='override')
combine_by_coords(datasets) ==
    LET groups == groupby(sorted(datasets))
    IN merge([g \in DOMAIN groups |-> concat_group(groups[g])])

\* ds = xr.combine_by_coords(ds_list, combine_attrs='override'), on the list
\* and on its permutation
Combine ==
    /\ merged = <<>>
    /\ merged' = combine_by_coords(ds_list)
    /\ merged_permuted' = combine_by_coords(ds_permuted)
    /\ UNCHANGED <<ds_list, ds_permuted, offMerge>>

(* ---------------------------- specification --------------------------- *)

FlowInit ==
    /\ dlState = [s \in Sources |-> "Pending"]
    /\ dlRuns = [s \in Sources |-> 0]
    /\ cvState = [s \in Sources |-> "Pending"]
    /\ cvRuns = [s \in Sources |-> 0]
    /\ cvErr = [s \in Sources |-> "none"]
    /\ readable = [s \in Sources |-> FALSE]
    /\ cbState = "Pending"
    /\ cbPc = "idle"
    /\ cbRuns = 0
    /\ cbErr = "none"
    /\ targetWrites = 0
    /\ target = "absent"
    /\ flowState = "Running"

CallsIdle ==
    /\ cache = [k \in TargetUrls(cache_location) |-> NoObject]
    /\ callPc = [c \in Calls |-> "idle"]
    /\ callUrl = [c \in Calls |-> None]
    /\ callProc = [c \in Calls |-> None]
    /\ callRet = [c \in Calls |-> NoUrl]
    /\ callPrior = [c \in Calls |-> NoUrl]
    /\ callReads = [c \in Calls |-> 0]
    /\ callWrites = [c \in Calls |-> 0]
    /\ returned = [k \in Processes \X Urls |-> NoUrl]

ConvertIdle ==
    /\ raw = EmptyDataset
    /\ ds = EmptyDataset
    /\ stage = "idle"

MergeIdle ==
    /\ ds_list = <<>>
    /\ ds_permuted = <<>>
    /\ merged = <<>>
    /\ merged_permuted = <<>>

SourcesIdle ==
    /\ self_variables = <<>>
    /\ self_years = <<>>
    /\ sources_pc = "idle"
    /\ var_i = 1
    /\ year_j = 1
    /\ source_urls = <<>>
    /\ nc_sources = <<>>
    /\ cached_sources = <<>>

Init ==
    /\ FlowInit
    /\ cache_location = configured_cache_location
    /\ CallsIdle
    /\ ConvertIdle
    /\ MergeIdle
    /\ SourcesIdle

Next ==
    \/ \E s \in Sources : DownloadStart(s)
    \/ \E s \in Sources : DownloadReturns(s)
    \/ \E s \in Sources : DownloadRaises(s)
    \/ \E s \in Sources : Nc2zarrStart(s)
    \/ \E s \in Sources : Nc2zarrTriggerFailed(s)
    \/ \E s \in Sources : Nc2zarrReturns(s)
    \/ \E s \in Sources : Nc2zarrRaises(s)
    \/ CombineStart
    \/ CombineTriggerFailed
    \/ CombineOpens
    \/ CombineOpenRaises
    \/ CombineMergeRaises
    \/ CombineWriteBegins
    \/ CombineReturns
    \/ CombineWriteRaises
    \/ FlowFinishes

Spec == Init /\ [][Next]_vars

\* The executor runs every task that is ready and every started attempt
\* finishes: while a step of the flow is possible, one is taken.
FairSpec == Spec /\ WF_vars(Next)

\* invocations of download on an empty cache, under either cache location
DownloadInit ==
    /\ FlowInit
    /\ cache_location \in CacheLocations
    /\ CallsIdle
    /\ ConvertIdle
    /\ MergeIdle
    /\ SourcesIdle

DownloadNext ==
    \/ \E c \in Calls, u \in Urls, p \in Processes : Invoke(c, u, p)
    \/ \E c \in Calls : CheckHit(c)
    \/ \E c \in Calls : CheckMiss(c)
    \/ \E c \in Calls : CheckRaises(c)
    \/ \E c \in Calls : OpenSource(c)
    \/ \E c \in Calls : OpenSourceRaises(c)
    \/ \E c \in Calls : OpenTarget(c)
    \/ \E c \in Calls : OpenTargetRaises(c)
    \/ \E c \in Calls : ReadSource(c)
    \/ \E c \in Calls : ReadRaises(c)
    \/ \E c \in Calls : WriteTarget(c)
    \/ \E c \in Calls, n \in 0..(ContentLen - 1) : WriteRaises(c, n)

DownloadSpec == DownloadInit /\ [][DownloadNext]_vars

\* the conversion of one raw dataset
ConvertInit ==
    /\ FlowInit
    /\ cache_location = configured_cache_location
    /\ CallsIdle
    /\ raw \in {r \in RawDatasets :
                  \A i, j \in DOMAIN r.data_vars :
                      Len(r.data_vars[i].values) = Len(r.data_vars[j].values)}
    /\ ds = raw
    /\ stage = "opened"
    /\ MergeIdle
    /\ SourcesIdle

ConvertNext ==
    \/ Preproc
    \/ Postproc

ConvertSpec == ConvertInit /\ [][ConvertNext]_vars

\* apply_mask on one array
MaskInit ==
    /\ FlowInit
    /\ cache_location = configured_cache_location
    /\ CallsIdle
    /\ raw \in {RawDataset(k, vals, <<>>, FALSE, FALSE) :
                  k \in MaskKeys,
                  vals \in UNION {[1..n -> ValueSet] : n \in 1..MaxLen}}
    /\ ds = raw
    /\ stage = "unmasked"
    /\ MergeIdle
    /\ SourcesIdle

MaskNext == ApplyMask

MaskSpec == MaskInit /\ [][MaskNext]_vars

Orders(n) == {p \in [1..n -> 1..n] : \A i, j \in 1..n : p[i] = p[j] => i = j}

\* the merge of a list of converted datasets and of a permutation of it; each
\* dataset is the conversion of one source, so two datasets of the same
\* variable and year are the same dataset
CombineInit ==
    /\ FlowInit
    /\ cache_location = configured_cache_location
    /\ CallsIdle
    /\ ConvertIdle
    /\ \E attrs_of \in [MergedSources -> AttrValues] :
           ds_list \in UNION {[1..n -> {Converted(s, attrs_of[s]) : s \in MergedSources}] :
                                 n \in 1..MaxInputs}
    /\ \E p \in Orders(Len(ds_list)) :
           ds_permuted = [i \in 1..Len(ds_list) |-> ds_list[p[i]]]
    /\ merged = <<>>
    /\ merged_permuted = <<>>
    /\ SourcesIdle

CombineNext == Combine

CombineSpec == CombineInit /\ [][CombineNext]_vars

\* variable names a pipeline in SourcesSpec is built with
SourceVariables == {"tmax", "tmin", "PDSI"}

\* TerraclimatePipeline(cache_location, target_location, variables, years)
\* with a list of distinct variables and a range of years, at the entry of
\* the sources property
SourcesInit ==
    /\ FlowInit
    /\ cache_location = configured_cache_location
    /\ CallsIdle
    /\ ConvertIdle
    /\ MergeIdle
    /\ self_variables \in
           {s \in UNION {[1..n -> SourceVariables] : n \in 0..MaxVariables} :
               \A a, b \in DOMAIN s : s[a] = s[b] => a = b}
    /\ self_years \in {range(1958, 1958 + n) : n \in 0..MaxYears}
    /\ sources_pc = "loop"
    /\ var_i = 1
    /\ year_j = 1
    /\ source_urls = <<>>
    /\ nc_sources = <<>>
    /\ cached_sources = <<>>

SourcesNext == SourcesAppend \/ SourcesReturn \/ FlowMaps

SourcesSpec == SourcesInit /\ [][SourcesNext]_vars

(* ------------------------------ properties ---------------------------- *)

Invoked(c) == callPc[c] /= "idle"

Complete(url, u) == cache[url] = SourceContent(u)

\* an invocation is between opening target_url for writing and leaving the
\* with block
Writing(c) == callPc[c] \in {"read", "write"}

\* C1: an invocation of download that begins after an invocation of the same
\* process for the same source_url returned makes no remote read and no write
\* to the cache, and when it returns it returns the value the first returned.
C1_Idempotent ==
    \A c \in Calls :
        callPrior[c] /= NoUrl =>
            /\ callReads[c] = 0
            /\ callWrites[c] = 0
            /\ callPc[c] = "returned" => callRet[c] = callPrior[c]

C1_Witness ==
    \E c \in Calls : callPrior[c] /= NoUrl /\ callPc[c] = "returned"

\* C2: the nc2zarr task of a source has run only if the download task of that
\* source is Success, and combine_and_write has run only if the nc2zarr task
\* of every source is finished.
C2_Ordering ==
    /\ \A s \in Sources :
           (cvRuns[s] > 0 \/ cvState[s] \in {"Running", "Retrying", "Success", "Failed"})
               => dlState[s] = "Success"
    /\ (cbRuns > 0 \/ cbState \in {"Running", "Success", "Failed"})
           => \A s \in Sources : cvState[s] \in Finished

\* the nc2zarr task of one source runs while the download of another has not
\* begun: nothing orders the tasks of different sources
C2_Witness ==
    \E s, t \in Sources :
        s /= t /\ cvState[s] = "Running" /\ dlState[s] = "Success"
               /\ dlState[t] = "Pending"

\* C3: once no invocation is writing a cache URL, an object at that URL holds
\* the whole source content, and the URL an invocation returned points to the
\* whole source content.
C3_NoPartialObject ==
    /\ \A p \in Processes, u \in Urls :
           LET url == target_url(p, u, cache_location) IN
           (/\ exists(url)
            /\ \A c \in Calls : ~(Invoked(c) /\ Writing(c) /\ MyTarget(c) = url))
               => Complete(url, u)
    /\ \A c \in Calls :
           (callPc[c] = "returned" /\ \A d \in Calls : ~Writing(d))
               => Complete(callRet[c], callUrl[c])

\* C4: two invocations for the same source_url (and the one cache_location)
\* target the same cache URL, whatever processes they run in.
C4_PureTargetUrl ==
    \A c, d \in Calls :
        (Invoked(c) /\ Invoked(d) /\ callUrl[c] = callUrl[d])
            => MyTarget(c) = MyTarget(d)

C5_Budget ==
    \A s \in Sources :
        /\ dlRuns[s] <= 2 /\ cvRuns[s] <= 2
        /\ dlState[s] = "Failed" => dlRuns[s] = 2
        /\ cvState[s] = "Failed" => cvRuns[s] = 2
        /\ dlState[s] = "Retrying" => dlRuns[s] = 1
        /\ cvState[s] = "Retrying" => cvRuns[s] = 1

C5_Isolated ==
    \A s \in Sources :
        (\/ dlState[s] /= "Failed" /\ dlState'[s] = "Failed"
         \/ cvState[s] /= "Failed" /\ cvState'[s] = "Failed")
            => \A t \in Sources \ {s} :
                   /\ dlState'[t] = dlState[t] /\ dlRuns'[t] = dlRuns[t]
                   /\ cvState'[t] = cvState[t] /\ cvRuns'[t] = cvRuns[t]

\* C5: a download or nc2zarr task is run at most twice, it is Failed only after
\* its second run raised, and the step that fails it changes nothing of the
\* tasks of the other sources.
C5_FailureIsolation == []C5_Budget /\ [][C5_Isolated]_vars

\* one source failed for good after two runs while another went through
C5_Witness ==
    \E s, t \in Sources :
        /\ s /= t
        /\ dlState[s] = "Failed" /\ dlRuns[s] = 2
        /\ dlState[t] = "Success" /\ cvState[t] = "Success"

\* C6 as stated: an nc2zarr run that raised on a malformed input is not run
\* again; the task is Failed after that first run.
C6_PermanentNotRetried ==
    \A s \in Sources :
        cvErr[s] = "malformed" => cvRuns[s] = 1 /\ cvState[s] = "Failed"

\* C6 as the code has it: an nc2zarr run that raised is retried once whatever
\* the exception; on a malformed input the task is Retrying after the first
\* run and Failed after the second.
C6_EveryFailureRetriedOnce ==
    \A s \in Sources :
        /\ cvState[s] = "Failed" => cvRuns[s] = 2
        /\ (cvErr[s] = "malformed" /\ cvState[s] /= "Running") =>
               \/ cvRuns[s] = 1 /\ cvState[s] = "Retrying"
               \/ cvRuns[s] = 2 /\ cvState[s] = "Failed"

C6_Witness ==
    \E s \in Sources :
        cvErr[s] = "malformed" /\ cvRuns[s] = 2 /\ cvState[s] = "Failed"

\* C7: combine_and_write is run at most once, the target is written at most
\* once, and a flow run that ended in Success wrote it exactly once.
C7_SingleWriter ==
    /\ cbRuns <= 1
    /\ targetWrites <= 1
    /\ flowState = "Success" => targetWrites = 1 /\ target = "complete"

C7_Witness == flowState = "Success" /\ targetWrites = 1 /\ cbRuns = 1

PermanentFailure(s) ==
    dlState[s] = "Failed" \/ cvState[s] \in {"Failed", "TriggerFailed"}

\* C8: when a download or nc2zarr task is failed for good, combine_and_write
\* has not run and the target is unwritten; the target is written only with
\* the nc2zarr task of every source in Success.
C8_FailureBlocksCombine ==
    /\ (\E s \in Sources : PermanentFailure(s)) =>
           cbRuns = 0 /\ targetWrites = 0 /\ target = "absent"
    /\ targetWrites > 0 => \A s \in Sources : cvState[s] = "Success"

C8_Witness ==
    /\ \E s \in Sources : PermanentFailure(s)
    /\ cbState = "TriggerFailed"
    /\ flowState = "Failed"

\* C9: while no invocation has raised, the invocations that returned for one
\* source_url returned the same cache URL, and from the moment an invocation
\* returns the object at the URL it returned holds the whole source content.
C9_ConcurrentSafe ==
    (\A c \in Calls : callPc[c] /= "raised") =>
        /\ \A c, d \in Calls :
               (/\ callPc[c] = "returned" /\ callPc[d] = "returned"
                /\ callUrl[c] = callUrl[d])
                   => callRet[c] = callRet[d]
        /\ \A c \in Calls :
               callPc[c] = "returned" => Complete(callRet[c], callUrl[c])

\* the primary variable of the raw dataset: its one data variable besides
\* station_influence
RawPrimary ==
    CHOOSE v \in {raw.data_vars[i] : i \in DOMAIN raw.data_vars} :
        v.name /= "station_influence"

\* x fails the rule (op, val) of the Mask Policy: it is not below val under
\* less-than, it equals val under not-equal
Fails(rule, x) ==
    \/ rule[1] = "lt" /\ (x = NaN \/ x[2] >= rule[2])
    \/ rule[1] = "neq" /\ x /= NaN /\ x[2] = rule[2]

\* C10: in the dataset preproc and postproc produce for a source file of a
\* variable with a rule in mask_opts, every value of the primary variable
\* that fails the rule is the missing marker.
C10_MaskPolicyApplied ==
    stage = "postprocessed" =>
        LET rule == mask_opts_get(RawPrimary.name)
            out == ds.data_vars[1]
        IN rule /= NoRule =>
               \A i \in DOMAIN RawPrimary.values :
                   Fails(rule, RawPrimary.values[i]) => out.values[i] = NaN

\* C11: for a key whose mask_opts entry is ("lt", T), apply_mask returns an
\* array of the same shape in which every element >= T is the missing marker
\* and every element < T is the input element.
C11_MaskLaw ==
    stage = "masked" =>
        LET key == raw.data_vars[1].name
            in == raw.data_vars[1].values
            out == ds.data_vars[1].values
        IN (key \in DOMAIN mask_opts /\ mask_opts[key] /= NoRule
                /\ mask_opts[key][1] = "lt") =>
               /\ DOMAIN out = DOMAIN in
               /\ \A i \in DOMAIN in :
                      /\ (in[i] /= NaN /\ in[i][2] >= mask_opts[key][2]) => out[i] = NaN
                      /\ (in[i] /= NaN /\ in[i][2] < mask_opts[key][2]) => out[i] = in[i]

\* tmax with an element at the threshold, masked, and one below it, kept
C11_Witness ==
    /\ stage = "masked"
    /\ raw.data_vars[1].name = "tmax"
    /\ \E i, j \in DOMAIN raw.data_vars[1].values :
           /\ raw.data_vars[1].values[i] = Num(200)
           /\ ds.data_vars[1].values[i] = NaN
           /\ raw.data_vars[1].values[j] = Num(-5)
           /\ ds.data_vars[1].values[j] = Num(-5)

\* C12: when combine_and_write raised because an input could not be opened or
\* the inputs could not be merged, nothing was written to the target: the
\* store is as it was before the call.
C12_NoPartialOutput ==
    cbErr \in {"open", "merge"} =>
        /\ cbState = "Failed"
        /\ targetWrites = 0
        /\ target = "absent"

C12_Witness ==
    /\ cbErr = "merge"
    /\ cbState = "Failed"
    /\ \A s \in Sources : cvState[s] = "Success"

\* C13: combine_by_coords with the override policy gives the same result
\* (variables, coordinates, values, attributes, or the same error) on a list
\* of converted datasets and on every permutation of it.
C13_OrderIndependent ==
    merged /= <<>> => merged = merged_permuted

\* three datasets of two variables and two years with differing attributes,
\* merged in two different orders into one archive
C13_Witness ==
    /\ merged /= <<>>
    /\ merged /= ValueError
    /\ ds_permuted /= ds_list
    /\ Len(ds_list) = 3
    /\ \E i, j \in DOMAIN ds_list : ds_list[i].attrs /= ds_list[j].attrs
    /\ \E i, j \in DOMAIN ds_list : ds_list[i].var /= ds_list[j].var
    /\ \E i, j \in DOMAIN ds_list : ds_list[i].year /= ds_list[j].year

\* C14: preproc returns a dataset whose data variables are exactly the
\* primary variable v of the raw dataset under rename_vars (v itself when the
\* table has no entry) and, when the raw dataset had station_influence, one
\* variable v_station_influence; a day coordinate is renamed to time on the
\* dataset and on every variable, and no variable station_influence remains.
C14_SchemaNormalized ==
    stage = "preprocessed" =>
        LET v == RawPrimary.name
            primary == IF v \in DOMAIN rename_vars THEN rename_vars[v] ELSE v
            side == IF "station_influence" \in Names(raw)
                    THEN {v \o "_station_influence"} ELSE {}
        IN /\ Names(ds) = {primary} \cup side
           /\ Len(ds.data_vars) = Cardinality({primary} \cup side)
           /\ "station_influence" \notin Names(ds)
           /\ "day" \notin ds.coords
           /\ "day" \in raw.coords => "time" \in ds.coords
           /\ \A i \in DOMAIN ds.data_vars : ds.data_vars[i].dim = "time"

\* the day-indexed file of PDSI that lists station_influence first comes out
\* as pdsi and PDSI_station_influence on time
C14_Witness ==
    /\ stage = "preprocessed"
    /\ "day" \in raw.coords
    /\ raw.data_vars[1].name = "station_influence"
    /\ RawPrimary.name = "PDSI"
    /\ Names(ds) = {"pdsi", "PDSI_station_influence"}
    /\ ds.data_vars[2].dim = "time"

\* C15: postproc leaves every value of a data variable whose name has no
\* mask_opts entry, or the entry None, as it was in the raw dataset; the
\* variable loses the encoding keys of drop_encoding and nothing else.
C15_IdentityLaw ==
    stage = "postprocessed" =>
        \A i \in DOMAIN ds.data_vars :
            LET da == ds.data_vars[i]
                before == IF i = 1 THEN RawPrimary
                          ELSE Var(raw, "station_influence")
            IN (da.name \notin DOMAIN mask_opts \/ mask_opts[da.name] = NoRule) =>
                   /\ da.values = before.values
                   /\ da.encoding = before.encoding \ drop_encoding
                   /\ da.dim = "time"

\* pdsi (no entry) keeps a value above every threshold, and
\* PDSI_station_influence (no entry) keeps its values
C15_Witness ==
    /\ stage = "postprocessed"
    /\ Names(ds) = {"pdsi", "PDSI_station_influence"}
    /\ \E i \in DOMAIN ds.data_vars[1].values :
           ds.data_vars[1].values[i] = Num(2147483647)
    /\ \E i \in DOMAIN ds.data_vars[2].values :
           ds.data_vars[2].values[i] = Num(250)
    /\ ds.data_vars[1].encoding = {"source", "original_shape"}

\* C16: sources returns one URL per (variable, year) pair of the variable
\* list and the year list, the template filled with the pair; distinct pairs
\* have distinct URLs; the flow maps one download child and one nc2zarr child
\* per pair.
C16_CrossProduct ==
    LET pairs == (DOMAIN self_variables) \X (DOMAIN self_years)
        url(p) == format(self_variables[p[1]], self_years[p[2]])
    IN /\ sources_pc \in {"returned", "mapped"} =>
              /\ Len(source_urls) = Len(self_variables) * Len(self_years)
              /\ \A p \in pairs :
                     Cardinality({k \in DOMAIN source_urls : source_urls[k] = url(p)}) = 1
              /\ \A k, l \in DOMAIN source_urls :
                     source_urls[k] = source_urls[l] => k = l
       /\ sources_pc = "mapped" =>
              /\ Len(nc_sources) = Cardinality(pairs)
              /\ Len(cached_sources) = Cardinality(pairs)
              /\ \A p \in pairs :
                     /\ Cardinality({k \in DOMAIN nc_sources : nc_sources[k] = url(p)}) = 1
                     /\ Cardinality({k \in DOMAIN cached_sources :
                                        nc_sources[cached_sources[k]] = url(p)}) = 1

\* two variables and two years: four URLs, in the order of the loops, and
\* four children of each mapped task
C16_Witness ==
    /\ sources_pc = "mapped"
    /\ self_variables = <<"tmax", "PDSI">>
    /\ self_years = <<1958, 1959>>
    /\ Len(nc_sources) = 4
    /\ Len(cached_sources) = 4
    /\ source_urls[2] =
           "https://climate.northwestknowledge.net/TERRACLIMATE-DATA/TerraClimate_tmax_1959.nc"
    /\ source_urls[3] =
           "https://climate.northwestknowledge.net/TERRACLIMATE-DATA/TerraClimate_PDSI_1958.nc"

C17_Attempts ==
    /\ \A s \in Sources : dlRuns[s] <= 2 /\ cvRuns[s] <= 2
    /\ cbRuns <= 1

C17_Terminal ==
    /\ \A s \in Sources :
           /\ dlState[s] \in {"Success", "Failed"}
           /\ cvState[s] \in {"Success", "Failed", "TriggerFailed"}
    /\ cbState \in {"Success", "Failed", "TriggerFailed"}
    /\ flowState \in {"Success", "Failed"}

\* C17: no download or nc2zarr task is run more than twice and
\* combine_and_write is not run more than once, and under fair scheduling
\* every task and the run itself end up in a terminal state for good.
C17_Terminates == []C17_Attempts /\ <>[]C17_Terminal

\* a run that ended after one download failed on its second attempt and one
\* conversion failed on its second attempt, combine_and_write never started
C17_Witness ==
    /\ C17_Terminal
    /\ \E s \in Sources : dlState[s] = "Failed" /\ dlRuns[s] = 2
    /\ \E s \in Sources : cvState[s] = "Failed" /\ cvRuns[s] = 2
    /\ cbState = "TriggerFailed"
    /\ cbRuns = 0
    /\ flowState = "Failed"

====
